---- MODULE Spec2Model ----
(***************************************************************************)
(* TabaDigit ESL API (src/main.py, src/schemas.py): the HTTP handlers over *)
(* the document store, as a state machine.                                 *)
(*                                                                         *)
(* JSON values.  A JSON value is null or a value; null is the empty tuple  *)
(* and a value v is the one-element tuple <<v>>, so that a null field, an  *)
(* absent field (not in the DOMAIN of the object) and an empty string are  *)
(* three different things, as they are for pydantic and for the store.     *)
(* The strings that are searched (name, brand, sku, q) are sequences of    *)
(* one-character strings; the other strings are plain strings.             *)
(***************************************************************************)
EXTENDS Integers, Sequences, FiniteSets, TLC

VARIABLES db, products, labels, priceupdates, stores, nextId, pending, last

vars == <<db, products, labels, priceupdates, stores, nextId, pending, last>>

(* ------------------------------ bounds -------------------------------- *)

\* Number of documents the store hands an identifier to in one run.
MaxDocs == 3
\* Longest batch of a bulk create.
MaxBulk == 2

(* ---------------------------- JSON values ----------------------------- *)

Null == <<>>
J(v) == <<v>>

\* The store handle db of database.py: None when the connection was never
\* made.  A handle that is there counts as true in "if db and ...".
None == "None"
Connected == "Connected"

(* ------------------------------ schemas ------------------------------- *)

ProductFields ==
  {"name", "sku", "brand", "category", "barcode", "price", "tax_class",
   "esl_id", "stock", "active"}

\* Field(...): required.
ProductRequired == {"name", "sku", "price"}

\* Optional[...]: an explicit null is accepted.
ProductNullable ==
  {"brand", "category", "barcode", "tax_class", "esl_id", "stock"}

ProductDefault(f) ==
  CASE f = "category" -> J("Tabacco")
    [] f = "tax_class" -> J("AAMS")
    [] f = "stock" -> J(0)
    [] f = "active" -> J(TRUE)
    [] OTHER -> Null

\* ge=0 on a field: null passes (only an Optional field can be null).
GeZero(obj, f) == (f \in DOMAIN obj /\ obj[f] # Null) => obj[f][1] >= 0

\* Mutant: the price bound is not checked.
ValidTobaccoProductNoPriceBound(p) ==
  /\ DOMAIN p \subseteq ProductFields
  /\ ProductRequired \subseteq DOMAIN p
  /\ \A f \in DOMAIN p : p[f] = Null => f \in ProductNullable
  /\ GeZero(p, "stock")

\* TobaccoProduct: does the payload validate.
ValidTobaccoProduct(p) ==
  /\ DOMAIN p \subseteq ProductFields
  /\ ProductRequired \subseteq DOMAIN p
  /\ \A f \in DOMAIN p : p[f] = Null => f \in ProductNullable
  /\ GeZero(p, "price")
  /\ GeZero(p, "stock")

\* TobaccoProduct(...).model_dump(): every field, defaults filled in.
DumpTobaccoProduct(p) ==
  [f \in ProductFields |-> IF f \in DOMAIN p THEN p[f] ELSE ProductDefault(f)]

\* ProductUpdate: every field Optional with default None; price, stock ge=0.
ValidProductUpdate(b) ==
  /\ DOMAIN b \subseteq ProductFields
  /\ GeZero(b, "price")
  /\ GeZero(b, "stock")

\* Mutant: only the first item of the batch is validated up front.
ValidBulkProductsFirstOnly(items) ==
  Len(items) > 0 => ValidTobaccoProduct(items[1])

\* BulkProducts: items: List[TobaccoProduct], validated as one body.
ValidBulkProducts(items) ==
  \A i \in 1..Len(items) : ValidTobaccoProduct(items[i])

LabelFields == {"esl_id", "status", "battery", "last_sync", "product_sku"}

LabelDefault(f) == IF f = "status" THEN J("idle") ELSE Null

ValidLabel(p) ==
  /\ DOMAIN p \subseteq LabelFields
  /\ "esl_id" \in DOMAIN p
  /\ \A f \in DOMAIN p : p[f] = Null => f # "esl_id"
  /\ ("battery" \in DOMAIN p /\ p["battery"] # Null) =>
        (p["battery"][1] >= 0 /\ p["battery"][1] <= 100)

DumpLabel(p) ==
  [f \in LabelFields |-> IF f \in DOMAIN p THEN p[f] ELSE LabelDefault(f)]

PriceUpdateFields ==
  {"product_sku", "old_price", "new_price", "scheduled_at", "status", "note"}

PriceUpdateRequired == {"product_sku", "old_price", "new_price"}

PriceUpdateNullable == {"scheduled_at", "note"}

PriceUpdateDefault(f) == IF f = "status" THEN J("done") ELSE Null

ValidPriceUpdate(u) ==
  /\ DOMAIN u \subseteq PriceUpdateFields
  /\ PriceUpdateRequired \subseteq DOMAIN u
  /\ \A f \in DOMAIN u : u[f] = Null => f \in PriceUpdateNullable
  /\ GeZero(u, "old_price")
  /\ GeZero(u, "new_price")

DumpPriceUpdate(u) ==
  [f \in PriceUpdateFields |->
     IF f \in DOMAIN u THEN u[f] ELSE PriceUpdateDefault(f)]

(* ---------------------------- identifiers ---------------------------- *)

\* An identifier token of a request path: wf says whether bson accepts it as
\* an ObjectId, oid is the ObjectId it then denotes.
Malformed == [wf |-> FALSE, oid |-> 0]
WellFormed(n) == [wf |-> TRUE, oid |-> n]

\* The tokens of the requests: the malformed one and the identifiers of the
\* first two documents.  A well-formed token matches no record before the
\* store issues it, after the record is deleted, and in a collection other
\* than the document's.
IdTokens == {Malformed, WellFormed(1), WellFormed(2)}

\* ObjectId(token) raises InvalidId unless the token is well formed.
ObjectIdRaises(t) == ~t.wf

(* ------------------------- the store's queries ------------------------ *)

Lower(c) == IF c = "A" THEN "a" ELSE IF c = "B" THEN "b" ELSE c

RECURSIVE MatchFrom(_, _, _, _)
\* Does pattern pat, from its i-th token on, match s at position j.  A token
\* is a literal character, compared without case ($options "i"), or the
\* anchor ^, which holds at the start of the subject only.
MatchFrom(pat, s, i, j) ==
  IF i > Len(pat) THEN TRUE
  ELSE IF pat[i] = "^" THEN j = 1 /\ MatchFrom(pat, s, i + 1, j)
  ELSE /\ j <= Len(s)
       /\ Lower(pat[i]) = Lower(s[j])
       /\ MatchFrom(pat, s, i + 1, j + 1)

\* {field: {"$regex": q, "$options": "i"}}: an unanchored search; a null
\* field matches nothing.
RegexMatches(q, value) ==
  /\ value # Null
  /\ \E j \in 1..(Len(value[1]) + 1) : MatchFrom(q, value[1], 1, j)

\* Mutant: the filter looks at name and brand only.
ProductFilterNoSku(q, doc) ==
  \/ q = <<>>
  \/ RegexMatches(q, doc["name"])
  \/ RegexMatches(q, doc["brand"])

\* filter_dict of list_products: {} when q is empty or None, else the $or.
ProductFilter(q, doc) ==
  \/ q = <<>>
  \/ RegexMatches(q, doc["name"])
  \/ RegexMatches(q, doc["brand"])
  \/ RegexMatches(q, doc["sku"])

RECURSIVE Ascending(_)
\* The identifiers of S in the order they were issued.
Ascending(S) ==
  IF S = {} THEN <<>>
  ELSE LET m == CHOOSE x \in S : \A y \in S : x <= y
       IN <<m>> \o Ascending(S \ {m})

Take(seq, n) == SubSeq(seq, 1, IF n < Len(seq) THEN n ELSE Len(seq))

\* _serialize: the document with _id popped and id set to its string.
Serialize(id, doc) == [id |-> id, doc |-> doc]

\* get_documents(collection, filter, limit): the identifiers of the first
\* limit documents that match, in the order the store keeps them.  The
\* filter is given as what it says of each document.
get_documents(coll, filter, limit) ==
  Take(Ascending({i \in DOMAIN coll : filter[i]}), limit)

\* [_serialize(d) for d in docs]
SerializeAll(coll, ids) ==
  [k \in 1..Len(ids) |-> Serialize(ids[k], coll[ids[k]])]

\* create_document(collection, data): the collection with the document
\* inserted under the identifier the store assigns.
create_document(coll, id, data) == coll @@ (id :> data)

ListProducts(coll, q, limit) ==
  LET filter_dict == [i \in DOMAIN coll |-> ProductFilter(q, coll[i])]
  IN SerializeAll(coll, get_documents(coll, filter_dict, limit))

ListAll(coll, limit) ==
  LET filter_dict == [i \in DOMAIN coll |-> TRUE]
  IN SerializeAll(coll, get_documents(coll, filter_dict, limit))

\* Mutant: null values of the body are kept.
UpdatesDictKeepNull(b) == b

\* updates.model_dump(exclude_unset=True) without the None values.
UpdatesDict(b) ==
  LET keep == {k \in DOMAIN b : b[k] # Null} IN [k \in keep |-> b[k]]

\* Mutant: the document is replaced by the fields given ($set left out).
SetFieldsReplace(doc, set) == set

\* $set: the document with the given fields overwritten or added.
SetFields(doc, set) ==
  [f \in DOMAIN doc \cup DOMAIN set |->
     IF f \in DOMAIN set THEN set[f] ELSE doc[f]]

\* Mutant: the result counts the matched documents.
ModifiedCountAsMatched(coll, id, set) ==
  IF id \in DOMAIN coll THEN 1 ELSE 0

\* UpdateResult.modified_count of update_one({"_id": id}, {"$set": set}):
\* 1 when a document matched and the write changed it.
ModifiedCount(coll, id, set) ==
  IF id \in DOMAIN coll /\ SetFields(coll[id], set) # coll[id] THEN 1 ELSE 0

\* The collection after update_one({"_id": id}, {"$set": set}).
UpdateOneById(coll, id, set) ==
  IF id \in DOMAIN coll
  THEN [coll EXCEPT ![id] = SetFields(coll[id], set)]
  ELSE coll

(* ------------------------------ requests ------------------------------ *)

Str(chars) == J(chars)

ProductPayloads ==
  { [name |-> Str(<<"b">>), sku |-> Str(<<"a">>), price |-> J(1)],
    [name |-> Str(<<"c">>), sku |-> Str(<<"^", "B">>), price |-> J(1),
     stock |-> Null],
    [name |-> Str(<<"b">>), sku |-> Str(<<"a">>), price |-> J(-1)],
    [name |-> Str(<<"b">>), sku |-> Str(<<"a">>), price |-> J(1),
     stock |-> J(-1)] }

\* The catalog runs add a product with an empty sku and a missing field.
CatalogPayloads ==
  ProductPayloads \cup
  { [name |-> Str(<<"b", "a">>), sku |-> Str(<<>>), price |-> J(1),
     brand |-> Str(<<"B">>)],
    [name |-> Str(<<"b">>), price |-> J(1)] }

ProductUpdateBodies ==
  { << >>,
    [price |-> Null, name |-> Null],
    [price |-> J(2), stock |-> Null, active |-> J(TRUE)],
    [price |-> J(1)],
    [price |-> J(-1)],
    [stock |-> J(-1), name |-> Str(<<"b">>)] }

DefaultLimit == 100

Limits == {1, DefaultLimit}

Queries == { <<>>, <<"a">>, <<"^", "B">> }

GoodItem == [name |-> Str(<<"b">>), sku |-> Str(<<"a">>), price |-> J(1)]
BadItem == [name |-> Str(<<"b">>), sku |-> Str(<<"a">>), price |-> J(1),
            stock |-> J(-1)]

\* The batches of a bulk create, none longer than MaxBulk.
Batches ==
  { b \in { <<>>, <<GoodItem>>, <<BadItem>>, <<GoodItem, GoodItem>>,
            <<GoodItem, BadItem>>, <<BadItem, GoodItem>>,
            <<GoodItem, GoodItem, BadItem>> } : Len(b) <= MaxBulk }

LabelPayloads ==
  { [esl_id |-> J("E1")],
    [esl_id |-> J("E1"), battery |-> J(101)] }

\* update_label takes any JSON object.
LabelUpdateBodies ==
  { << >>,
    [battery |-> J(150)],
    [status |-> J("idle")] }

PriceUpdatePayloads ==
  { [product_sku |-> Str(<<"a">>), old_price |-> J(1), new_price |-> J(2)],
    [product_sku |-> Str(<<"a">>), old_price |-> J(1), new_price |-> J(-1)],
    [product_sku |-> Str(<<"a">>), old_price |-> J(1)] }

(* ------------------------------ responses ----------------------------- *)

\* What the last request was and how it ended: the operation, the HTTP
\* status and the JSON body; for a product's partial update also the body of
\* the request.
NoEcho == [none |-> TRUE]

Response(op, req, status, out) ==
  [op |-> op, req |-> req, status |-> status, out |-> out]

Error(op, req, status) == Response(op, req, status, [detail |-> "error"])

\* No request is between two writes.
Idle == pending = <<>>

StoreUnchanged == UNCHANGED <<products, labels, priceupdates, stores, nextId>>

(* ------------------------------- Init --------------------------------- *)

Init ==
  /\ db \in {Connected, None}
  /\ products = << >>
  /\ labels = << >>
  /\ priceupdates = << >>
  /\ stores = << >>
  /\ nextId = 1
  /\ pending = <<>>
  /\ last = Response("start", NoEcho, 200, [detail |-> "none"])

(* ------------------------- products endpoints ------------------------- *)

\* POST /api/products
create_product(product) ==
  LET req == NoEcho IN
  /\ Idle
  /\ UNCHANGED <<db, labels, priceupdates, stores, pending>>
  /\ IF ~ValidTobaccoProduct(product)
     THEN /\ last' = Error("create_product", req, 422)
          /\ UNCHANGED <<products, nextId>>
     ELSE IF db = None
     THEN /\ last' = Error("create_product", req, 500)
          /\ UNCHANGED <<products, nextId>>
     ELSE /\ nextId <= MaxDocs
          /\ products' =
               create_document(products, nextId, DumpTobaccoProduct(product))
          /\ nextId' = nextId + 1
          /\ last' = Response("create_product", req, 200, [id |-> nextId])

RECURSIVE InsertAll(_, _, _)
\* The collection after create_document on each item in turn, the first
\* of them given the identifier id.
InsertAll(coll, items, id) ==
  IF items = <<>> THEN coll
  ELSE InsertAll(create_document(coll, id, DumpTobaccoProduct(Head(items))),
                 Tail(items), id + 1)

\* POST /api/products/bulk
create_products_bulk(items) ==
  LET req == NoEcho IN
  /\ Idle
  /\ UNCHANGED <<db, labels, priceupdates, stores, pending>>
  /\ IF ~ValidBulkProducts(items)
     THEN /\ last' = Error("create_products_bulk", req, 422)
          /\ UNCHANGED <<products, nextId>>
     ELSE IF db = None /\ Len(items) > 0
     THEN /\ last' = Error("create_products_bulk", req, 500)
          /\ UNCHANGED <<products, nextId>>
     ELSE /\ nextId + Len(items) - 1 <= MaxDocs
          /\ products' = InsertAll(products, items, nextId)
          /\ nextId' = nextId + Len(items)
          /\ last' = Response("create_products_bulk", req, 200,
                        [inserted |-> [k \in 1..Len(items) |-> nextId + k - 1],
                         count |-> Len(items)])

\* GET /api/products?q=&limit=
list_products(q, limit) ==
  LET req == NoEcho IN
  /\ Idle
  /\ UNCHANGED <<db, pending>>
  /\ StoreUnchanged
  /\ IF db = None
     THEN last' = Error("list_products", req, 500)
     ELSE last' = Response("list_products", req, 200,
                     [items |-> ListProducts(products, q, limit)])

\* PATCH /api/products/{product_id}
update_product(product_id, updates) ==
  LET req == [body |-> updates] IN
  /\ Idle
  /\ UNCHANGED <<db, labels, priceupdates, stores, nextId, pending>>
  /\ IF ~ValidProductUpdate(updates)
     THEN /\ last' = Error("update_product", req, 422)
          /\ UNCHANGED products
     ELSE IF db = None
     THEN /\ last' = Error("update_product", req, 500)
          /\ UNCHANGED products
     ELSE LET updates_dict == UpdatesDict(updates) IN
          IF DOMAIN updates_dict = {}
          THEN /\ last' = Response("update_product", req, 200, [updated |-> 0])
               /\ UNCHANGED products
          ELSE IF ObjectIdRaises(product_id)
          THEN /\ last' = Error("update_product", req, 400)
               /\ UNCHANGED products
          ELSE /\ products' =
                    UpdateOneById(products, product_id.oid, updates_dict)
               /\ last' = Response("update_product", req, 200,
                    [updated |->
                       ModifiedCount(products, product_id.oid, updates_dict)])

\* DELETE /api/products/{product_id}
delete_product(product_id) ==
  LET req == NoEcho IN
  /\ Idle
  /\ UNCHANGED <<db, labels, priceupdates, stores, nextId, pending>>
  /\ IF db = None \/ ObjectIdRaises(product_id)
     THEN /\ last' = Error("delete_product", req, 500)
          /\ UNCHANGED products
     ELSE /\ products' =
               [i \in DOMAIN products \ {product_id.oid} |-> products[i]]
          /\ last' = Response("delete_product", req, 200,
               [deleted |->
                  IF product_id.oid \in DOMAIN products THEN 1 ELSE 0])

(* -------------------------- labels endpoints -------------------------- *)

\* POST /api/labels
create_label(label) ==
  LET req == NoEcho IN
  /\ Idle
  /\ UNCHANGED <<db, products, priceupdates, stores, pending>>
  /\ IF ~ValidLabel(label)
     THEN /\ last' = Error("create_label", req, 422)
          /\ UNCHANGED <<labels, nextId>>
     ELSE IF db = None
     THEN /\ last' = Error("create_label", req, 500)
          /\ UNCHANGED <<labels, nextId>>
     ELSE /\ nextId <= MaxDocs
          /\ labels' = create_document(labels, nextId, DumpLabel(label))
          /\ nextId' = nextId + 1
          /\ last' = Response("create_label", req, 200, [id |-> nextId])

\* GET /api/labels?limit=
list_labels(limit) ==
  LET req == NoEcho IN
  /\ Idle
  /\ UNCHANGED <<db, pending>>
  /\ StoreUnchanged
  /\ IF db = None
     THEN last' = Error("list_labels", req, 500)
     ELSE last' = Response("list_labels", req, 200,
                     [items |-> ListAll(labels, limit)])

\* PATCH /api/labels/{label_id}.  The body is not validated and nothing is
\* caught: InvalidId and a store error both leave the handler as exceptions.
\* An empty $set is an error or a no-op, depending on the store.
update_label(label_id, payload) ==
  LET req == NoEcho IN
  /\ Idle
  /\ UNCHANGED <<db, products, priceupdates, stores, nextId, pending>>
  /\ IF db = None \/ ObjectIdRaises(label_id)
     THEN /\ last' = Error("update_label", req, 500)
          /\ UNCHANGED labels
     ELSE IF DOMAIN payload = {}
     THEN /\ UNCHANGED labels
          /\ \/ last' = Error("update_label", req, 500)
             \/ last' = Response("update_label", req, 200, [updated |-> 0])
     ELSE /\ labels' = UpdateOneById(labels, label_id.oid, payload)
          /\ last' = Response("update_label", req, 200,
               [updated |-> ModifiedCount(labels, label_id.oid, payload)])

(* ----------------------- price updates endpoints ---------------------- *)

\* Mutant: the filter compares the product's name.
MatchingName(coll, sku) == {i \in DOMAIN coll : coll[i]["name"] = sku}

\* The documents the filter {"sku": sku} matches.
MatchingSku(coll, sku) == {i \in DOMAIN coll : coll[i]["sku"] = sku}

\* Mutant: every matching document is written (update_many).
UpdateManyBySku(coll, sku, set) ==
  { [i \in DOMAIN coll |->
       IF i \in MatchingSku(coll, sku) THEN SetFields(coll[i], set)
       ELSE coll[i]] }

\* update_one({"sku": sku}, {"$set": set}): the collections it can leave.
\* One matching document is written, which one is the store's choice; with
\* no match nothing is written and nothing is raised.
UpdateOneBySku(coll, sku, set) ==
  LET m == MatchingSku(coll, sku) IN
  IF m = {} THEN {coll}
  ELSE { [coll EXCEPT ![i] = SetFields(coll[i], set)] : i \in m }

\* Mutant: the product is overwritten first and the record is not inserted
\* before it.
price_update_patch_first(update) ==
  /\ Idle
  /\ ValidPriceUpdate(update)
  /\ db # None
  /\ nextId <= MaxDocs
  /\ UNCHANGED <<db, labels, stores, priceupdates, last>>
  /\ products' \in UpdateOneBySku(products, update["product_sku"],
                                  [price |-> update["new_price"]])
  /\ nextId' = nextId + 1
  /\ pending' = <<[upd_id |-> nextId, update |-> update]>>

\* POST /api/price-updates, up to and including the first write,
\* create_document("priceupdate", update).  When the store handle and
\* new_price are there the request goes on to the second write (pending
\* holds the handler's upd_id and update); otherwise it answers at once.
price_update_insert(update) ==
  LET req == NoEcho IN
  /\ Idle
  /\ UNCHANGED <<db, products, labels, stores>>
  /\ IF ~ValidPriceUpdate(update)
     THEN /\ last' = Error("create_price_update", req, 422)
          /\ UNCHANGED <<priceupdates, nextId, pending>>
     ELSE IF db = None
     THEN /\ last' = Error("create_price_update", req, 500)
          /\ UNCHANGED <<priceupdates, nextId, pending>>
     ELSE /\ nextId <= MaxDocs
          /\ priceupdates' =
               create_document(priceupdates, nextId, DumpPriceUpdate(update))
          /\ nextId' = nextId + 1
          /\ IF db # None /\ update["new_price"] # Null
             THEN /\ pending' = <<[upd_id |-> nextId, update |-> update]>>
                  /\ UNCHANGED last
             ELSE /\ pending' = <<>>
                  /\ last' = Response("create_price_update", req, 200,
                                      [id |-> nextId])

\* The second write, update_one({"sku": product_sku}, {"$set": {"price":
\* new_price}}), and the response {"id": upd_id}.
price_update_patch ==
  /\ pending # <<>>
  /\ UNCHANGED <<db, labels, priceupdates, stores, nextId>>
  /\ LET upd_id == pending[1].upd_id
         update == pending[1].update
     IN /\ products' \in UpdateOneBySku(products, update["product_sku"],
                                        [price |-> update["new_price"]])
        /\ last' = Response("create_price_update", NoEcho, 200,
                            [id |-> upd_id])
  /\ pending' = <<>>

\* The process dies or the store fails between the two writes: the request
\* ends without the second write.
price_update_fail ==
  /\ pending # <<>>
  /\ UNCHANGED <<db, stores, nextId>>
  /\ UNCHANGED <<products, labels, priceupdates>>
  /\ last' = Error("create_price_update", NoEcho, 500)
  /\ pending' = <<>>

\* GET /api/price-updates?limit=
list_price_updates(limit) ==
  LET req == NoEcho IN
  /\ Idle
  /\ UNCHANGED <<db, pending>>
  /\ StoreUnchanged
  /\ IF db = None
     THEN last' = Error("list_price_updates", req, 500)
     ELSE last' = Response("list_price_updates", req, 200,
                     [items |-> ListAll(priceupdates, limit)])

(* ------------------------------- Next --------------------------------- *)

Next ==
  \/ \E p \in ProductPayloads : create_product(p)
  \/ \E items \in Batches : create_products_bulk(items)
  \/ \E limit \in Limits : list_products(<<>>, limit)
  \/ \E t \in IdTokens, b \in ProductUpdateBodies : update_product(t, b)
  \/ \E t \in IdTokens : delete_product(t)
  \/ \E p \in LabelPayloads : create_label(p)
  \/ list_labels(DefaultLimit)
  \/ \E t \in IdTokens, b \in LabelUpdateBodies : update_label(t, b)
  \/ \E u \in PriceUpdatePayloads : price_update_insert(u)
  \/ price_update_patch
  \/ price_update_fail
  \/ list_price_updates(DefaultLimit)

\* Every endpoint that writes or reads the store.
Spec == Init /\ [][Next]_vars

NextCatalog ==
  \/ \E p \in CatalogPayloads : create_product(p)
  \/ \E items \in Batches : create_products_bulk(items)
  \/ \E q \in Queries, limit \in Limits : list_products(q, limit)
  \/ \E t \in IdTokens, b \in ProductUpdateBodies : update_product(t, b)
  \/ \E t \in IdTokens : delete_product(t)

\* The products endpoints alone, over more kinds of product.
SpecCatalog == Init /\ [][NextCatalog]_vars

(***************************************************************************)
(* The claims.  A claim about what one request does is an action property: *)
(* it reads the store before and after every step the request can take.    *)
(***************************************************************************)

NonNegative(v) == v # Null /\ v[1] >= 0

NullOrNonNegative(v) == v = Null \/ v[1] >= 0

\* The payload carries a negative price or a negative stock.
NegativePriceOrStock(p) ==
  \E f \in {"price", "stock"} \cap DOMAIN p : p[f] # Null /\ p[f][1] < 0

\* The step is update_product(t, b).  (The response names the operation and
\* the body, which is looked at first.)
UpdateProductStep(t, b) ==
  /\ last'.op = "update_product"
  /\ last'.req.body = b
  /\ update_product(t, b)

\* The step is update_label(t, b).
UpdateLabelStep(t, b) ==
  /\ last'.op = "update_label"
  /\ update_label(t, b)

\* Every field of the body is absent or null.
EmptyFieldSet(b) == \A f \in DOMAIN b : b[f] = Null

\* A create request with a negative price or stock is refused and writes
\* nothing.
NegativeCreateRefused ==
  /\ \A p \in ProductPayloads :
       (/\ last'.op = "create_product"
        /\ NegativePriceOrStock(p)
        /\ create_product(p)) =>
         (last'.status = 422 /\ StoreUnchanged)
  /\ \A items \in Batches :
       (/\ last'.op = "create_products_bulk"
        /\ \E k \in 1..Len(items) : NegativePriceOrStock(items[k])
        /\ create_products_bulk(items)) =>
         (last'.status = 422 /\ StoreUnchanged)

\* C1, as stated: after every step of every run (product create, bulk
\* create, partial update, delete, price update) every stored product has
\* price >= 0 and stock >= 0, and a create request with a negative price or
\* stock fails with a validation error and persists nothing.
C1_PriceAndStockAtLeastZero ==
  [][/\ \A i \in DOMAIN products' :
          /\ NonNegative(products'[i]["price"])
          /\ NonNegative(products'[i]["stock"])
     /\ NegativeCreateRefused]_vars

\* C1, amended: after every step every stored product has price >= 0 and a
\* stock that is null or >= 0 (the store starts empty), and a create request
\* with a negative price or stock fails with a validation error and persists
\* nothing.
C1_NeverNegative ==
  [][/\ \A i \in DOMAIN products' :
          /\ NonNegative(products'[i]["price"])
          /\ NullOrNonNegative(products'[i]["stock"])
     /\ NegativeCreateRefused]_vars

\* A negative create was just refused while the store holds a product with
\* a null stock and a product whose price was overwritten.
C1_Witness ==
  /\ last.op = "create_product"
  /\ last.status = 422
  /\ \E i \in DOMAIN products : products[i]["stock"] = Null
  /\ \E i \in DOMAIN products : products[i]["price"] = J(2)

C3_MalformedIs400 ==
  [][/\ \A b \in ProductUpdateBodies :
          (db # None /\ UpdateProductStep(Malformed, b)) =>
            (last'.status = 400 /\ StoreUnchanged)
     /\ \A b \in LabelUpdateBodies :
          (db # None /\ UpdateLabelStep(Malformed, b)) =>
            (last'.status = 400 /\ StoreUnchanged)]_vars

\* C4, as stated: a partial update with a well-formed identifier that
\* answers {updated: n} has n in {0, 1}, and when a record has that
\* identifier and the body carries a non-null field, n is not 0.
C4_ZeroMeansAbsent ==
  [][/\ \A t \in IdTokens, b \in ProductUpdateBodies :
          (t.wf /\ last'.status = 200 /\ UpdateProductStep(t, b)) =>
            /\ last'.out.updated \in {0, 1}
            /\ (t.oid \in DOMAIN products /\ ~EmptyFieldSet(b)) =>
                 last'.out.updated # 0
     /\ \A t \in IdTokens, b \in LabelUpdateBodies :
          (t.wf /\ last'.status = 200 /\ UpdateLabelStep(t, b)) =>
            /\ last'.out.updated \in {0, 1}
            /\ (t.oid \in DOMAIN labels /\ ~EmptyFieldSet(b)) =>
                 last'.out.updated # 0]_vars

\* The record already holds every value the $set would write.
HoldsAll(doc, set) ==
  \A f \in DOMAIN set : f \in DOMAIN doc /\ doc[f] = set[f]

NonNullPart(b) ==
  LET keep == {f \in DOMAIN b : b[f] # Null} IN [f \in keep |-> b[f]]

\* C4, amended: a partial update with a well-formed identifier that answers
\* {updated: n} has n in {0, 1}, and n = 0 exactly when no record has that
\* identifier or the record already holds every value the request sets (for
\* a product the non-null fields of the body, for a label every field of
\* it); a product update with a valid body and the store connected always
\* answers so.
C4_ZeroMeansAbsentOrSame ==
  [][/\ \A t \in IdTokens, b \in ProductUpdateBodies :
          (/\ t.wf /\ db # None /\ ~NegativePriceOrStock(b)
           /\ UpdateProductStep(t, b)) =>
            /\ last'.status = 200
            /\ last'.out.updated \in {0, 1}
            /\ last'.out.updated = 0 <=>
                 \/ t.oid \notin DOMAIN products
                 \/ HoldsAll(products[t.oid], NonNullPart(b))
     /\ \A t \in IdTokens, b \in LabelUpdateBodies :
          (t.wf /\ last'.status = 200 /\ UpdateLabelStep(t, b)) =>
            /\ last'.out.updated \in {0, 1}
            /\ last'.out.updated = 0 <=>
                 \/ t.oid \notin DOMAIN labels
                 \/ HoldsAll(labels[t.oid], b)]_vars

\* Every well-formed identifier names a product whose price is 1, and the
\* update that set price to 1 answered {updated: 0}.
C4_Witness ==
  /\ last.op = "update_product"
  /\ last.status = 200
  /\ last.req.body = [price |-> J(1)]
  /\ last.out.updated = 0
  /\ \A t \in IdTokens : t.wf => t.oid \in DOMAIN products
  /\ \A i \in DOMAIN products : products[i]["price"] = J(1)

\* C5: a bulk create with an invalid item answers with a validation error
\* and inserts nothing: the store is as it was.
C5_BulkAllOrNothing ==
  [][\A items \in Batches :
       (/\ last'.op = "create_products_bulk"
        /\ \E k \in 1..Len(items) : ~ValidTobaccoProduct(items[k])
        /\ create_products_bulk(items)) =>
         (last'.status = 422 /\ StoreUnchanged)]_vars

\* A bulk create was refused, in a store that holds products.
C5_Witness ==
  /\ last.op = "create_products_bulk"
  /\ last.status = 422
  /\ products # << >>

\* Every field of the payload is stored as given.
FieldsEqual(doc, p) == \A f \in DOMAIN p : doc[f] = p[f]

\* C6, as stated: after a product is created, listing the products with q
\* equal to its sku (default limit) returns exactly one record, whose fields
\* equal the input.
C6_CreateThenListExactlyOne ==
  [][\A p \in CatalogPayloads :
       (/\ last'.op = "create_product"
        /\ last'.status = 200
        /\ create_product(p)) =>
         LET r == ListProducts(products', p["sku"][1], DefaultLimit)
         IN Len(r) = 1 /\ FieldsEqual(r[1].doc, p)]_vars

\* sub occurs in s, letter case apart.
ContainsCI(sub, s) ==
  \E j \in 0..(Len(s) - Len(sub)) :
    \A k \in 1..Len(sub) : Lower(sub[k]) = Lower(s[j + k])

\* The characters a regular expression does not take literally.
RegexMeta == {"^"}

\* A sku that is not empty and is a literal pattern.
PlainSku(sku) == sku # <<>> /\ \A k \in 1..Len(sku) : sku[k] \notin RegexMeta

\* The stored products other than id whose name, brand or sku contains sku.
OtherMatches(coll, id, sku) ==
  {i \in DOMAIN coll \ {id} :
     \E f \in {"name", "brand", "sku"} :
       coll[i][f] # Null /\ ContainsCI(sku, coll[i][f][1])}

\* C6, amended: after a product is created whose sku is not empty and has no
\* regular-expression metacharacter, in a store where no other product's
\* name, brand or sku contains that sku (letter case apart), listing the
\* products with q equal to the sku returns exactly one record, which has
\* the new identifier and whose fields equal the input.
C6_CreateThenListOwnRecord ==
  [][\A p \in CatalogPayloads :
       (/\ last'.op = "create_product"
        /\ last'.status = 200
        /\ create_product(p)
        /\ PlainSku(p["sku"][1])
        /\ OtherMatches(products', last'.out.id, p["sku"][1]) = {}) =>
         \A limit \in Limits :
           LET r == ListProducts(products', p["sku"][1], limit)
           IN /\ Len(r) = 1
              /\ r[1].id = last'.out.id
              /\ FieldsEqual(r[1].doc, p)]_vars

\* A product was just created next to another one that does not match its
\* sku, and listing by its sku returns it alone.
C6_Witness ==
  /\ last.op = "create_product"
  /\ last.status = 200
  /\ last.out.id \in DOMAIN products
  /\ Cardinality(DOMAIN products) >= 2
  /\ LET sku == products[last.out.id]["sku"][1]
     IN /\ PlainSku(sku)
        /\ OtherMatches(products, last.out.id, sku) = {}
        /\ Len(ListProducts(products, sku, DefaultLimit)) = 1

\* C7: a product partial update with a well-formed identifier leaves every
\* label, price update and store record and every other product as it was;
\* on the product with that identifier, when the request is accepted, each
\* field that is present and non-null in the body takes the body's value and
\* every other field keeps its value; when it is refused nothing changes.
C7_UpdateFrame ==
  [][\A t \in IdTokens, b \in ProductUpdateBodies :
       (t.wf /\ UpdateProductStep(t, b)) =>
         /\ labels' = labels
         /\ priceupdates' = priceupdates
         /\ stores' = stores
         /\ DOMAIN products' = DOMAIN products
         /\ \A i \in DOMAIN products :
              IF i = t.oid /\ last'.status = 200
              THEN /\ DOMAIN products'[i] = DOMAIN products[i]
                   /\ \A f \in DOMAIN products[i] :
                        products'[i][f] =
                          IF f \in DOMAIN b /\ b[f] # Null
                          THEN b[f] ELSE products[i][f]
              ELSE products'[i] = products[i]]_vars

\* An update with price 2, a null stock and active true changed a product:
\* a product holds price 2 and still its stock 0.
C7_Witness ==
  /\ last.op = "update_product"
  /\ last.status = 200
  /\ last.req.body = [price |-> J(2), stock |-> Null, active |-> J(TRUE)]
  /\ last.out.updated = 1
  /\ \E i \in DOMAIN products :
       products[i]["price"] = J(2) /\ products[i]["stock"] = J(0)

\* C8: with the store connected, a product partial update whose fields are
\* all absent or null answers 200 {updated: 0} and leaves the whole store as
\* it was.
C8_EmptyUpdateNoOp ==
  [][\A t \in IdTokens, b \in ProductUpdateBodies :
       (db # None /\ EmptyFieldSet(b) /\ UpdateProductStep(t, b)) =>
         /\ last'.status = 200
         /\ last'.out = [updated |-> 0]
         /\ StoreUnchanged]_vars

\* An update whose body holds only nulls answered {updated: 0} in a store
\* where every well-formed identifier names a product.
C8_Witness ==
  /\ last.op = "update_product"
  /\ last.status = 200
  /\ last.req.body = [price |-> Null, name |-> Null]
  /\ last.out = [updated |-> 0]
  /\ \A t \in IdTokens : t.wf => t.oid \in DOMAIN products

\* C9: a step of a price-update request that changes a product is the
\* request's second write, and the request's PriceUpdate record is stored
\* before it; while the second write is outstanding the record is stored.
C9_RecordBeforePrice ==
  [][/\ (products' # products /\ (pending # <<>> \/ pending' # <<>>)) =>
          /\ pending # <<>>
          /\ pending[1].upd_id \in DOMAIN priceupdates
          /\ priceupdates[pending[1].upd_id]["new_price"] =
               pending[1].update["new_price"]
     /\ pending' # <<>> => pending'[1].upd_id \in DOMAIN priceupdates'
     /\ DOMAIN priceupdates \subseteq DOMAIN priceupdates']_vars

\* A price-update request ended between its two writes: its record is
\* stored and the product with its sku does not hold its new_price.
C9_Witness ==
  /\ last.op = "create_price_update"
  /\ last.status = 500
  /\ \E r \in DOMAIN priceupdates, i \in DOMAIN products :
       /\ products[i]["sku"] = priceupdates[r]["product_sku"]
       /\ products[i]["price"] # priceupdates[r]["new_price"]

\* A step of a price-update create request.
PriceUpdateStep ==
  \/ \E u \in PriceUpdatePayloads : price_update_insert(u)
  \/ price_update_patch
  \/ price_update_fail

\* C10: a price-update create request changes at most one product; the
\* product it changes has the request's sku and changes in its price only;
\* no label and no store record changes and no product is added or removed.
C10_PriceUpdateFrame ==
  [][((last'.op = "create_price_update" \/ pending' # <<>>)
       /\ PriceUpdateStep) =>
       /\ labels' = labels
       /\ stores' = stores
       /\ DOMAIN products' = DOMAIN products
       /\ Cardinality({i \in DOMAIN products : products'[i] # products[i]}) <= 1
       /\ \A i \in DOMAIN products :
            products'[i] # products[i] =>
              /\ pending # <<>>
              /\ products[i]["sku"] = pending[1].update["product_sku"]
              /\ DOMAIN products'[i] = DOMAIN products[i]
              /\ \A f \in DOMAIN products[i] \ {"price"} :
                   products'[i][f] = products[i][f]]_vars

\* Two products share the sku of a price update that was answered: one
\* holds its new_price, the other does not.
C10_Witness ==
  /\ last.op = "create_price_update"
  /\ last.status = 200
  /\ last.out.id \in DOMAIN priceupdates
  /\ \E i \in DOMAIN products, j \in DOMAIN products :
       /\ i # j
       /\ products[i]["sku"] = priceupdates[last.out.id]["product_sku"]
       /\ products[j]["sku"] = priceupdates[last.out.id]["product_sku"]
       /\ products[i]["price"] = priceupdates[last.out.id]["new_price"]
       /\ products[j]["price"] # priceupdates[last.out.id]["new_price"]

====
